---- MODULE Spec2Model ----
(***************************************************************************)
(* Handwriting synthesis: the stroke post-processing pipeline of           *)
(* drawing.py (offset/coordinate conversion, denoise, interpolate, align,  *)
(* add_messiness) and the Hand.write / Hand._sample / Hand._draw driver of *)
(* demo.py.                                                                *)
(*                                                                         *)
(* Numbers.  numpy float64 values are modelled by exact rationals          *)
(* <<n, d>> (d > 0, lowest terms).  Sums, differences, products and        *)
(* quotients are exact; cos/sin of an angle are taken at rational points   *)
(* of the unit circle (see CosSin, align).  A coordinate array of shape    *)
(* (N, 3) is a sequence of rows <<x, y, eos>>, x and y rationals and eos   *)
(* the pen-lift flag 0 or 1; an array of shape (N, 2) is a sequence of     *)
(* rows <<x, y>>.                                                          *)
(***************************************************************************)
EXTENDS Integers, Sequences, FiniteSets, TLC

\* ------------------------------------------------------------ rationals
Abs(n) == IF n < 0 THEN -n ELSE n

RECURSIVE GCD(_, _)
GCD(a, b) == IF b = 0 THEN a ELSE GCD(b, a % b)

\* n/d in lowest terms with a positive denominator (d # 0)
Norm(n, d) ==
    LET s == IF d < 0 THEN -1 ELSE 1
        g == GCD(Abs(n), Abs(d))
    IN  <<(s * n) \div g, (s * d) \div g>>

Q(n) == <<n, 1>>
Frac(n, d) == Norm(n, d)

QNeg(a) == <<-a[1], a[2]>>

QAdd(a, b) ==
    LET g == GCD(a[2], b[2])
        l == (a[2] \div g) * b[2]
    IN  Norm(a[1] * (l \div a[2]) + b[1] * (l \div b[2]), l)

QSub(a, b) == QAdd(a, QNeg(b))

QMul(a, b) ==
    LET g1 == GCD(Abs(a[1]), b[2])
        g2 == GCD(Abs(b[1]), a[2])
    IN  Norm((a[1] \div g1) * (b[1] \div g2), (a[2] \div g2) * (b[2] \div g1))

\* a / b, b # 0
QDiv(a, b) == QMul(a, Norm(b[2], b[1]))

QSign(a) == IF a[1] > 0 THEN 1 ELSE IF a[1] < 0 THEN -1 ELSE 0
QLt(a, b) == QSign(QSub(a, b)) < 0
QLe(a, b) == QSign(QSub(a, b)) <= 0
QAbs(a) == <<Abs(a[1]), a[2]>>
QMin2(a, b) == IF QLt(b, a) THEN b ELSE a
QMax2(a, b) == IF QLt(a, b) THEN b ELSE a

RECURSIVE QSum(_)
QSum(s) == IF s = <<>> THEN Q(0) ELSE QAdd(s[1], QSum(Tail(s)))

RECURSIVE QMinSeq(_)
QMinSeq(s) == IF Len(s) = 1 THEN s[1] ELSE QMin2(s[1], QMinSeq(Tail(s)))

RECURSIVE QMaxSeq(_)
QMaxSeq(s) == IF Len(s) = 1 THEN s[1] ELSE QMax2(s[1], QMaxSeq(Tail(s)))

\* np.mean of a non-empty vector
QMean(s) == QDiv(QSum(s), Q(Len(s)))

\* columns of an array
Col(a, j) == [i \in 1..Len(a) |-> a[i][j]]

\* ------------------------------------------------- results of a call
\* A call either returns a value or raises an exception.
Ret(v) == [tag |-> "ok", val |-> v]
Raise(e) == [tag |-> "raise", exc |-> e]
IsOk(r) == r.tag = "ok"

\* ------------------------------------------------------------ alphabet
\* drawing.alphabet; "NUL" stands for the character '\x00'
alphabet ==
    << "NUL", " ", "!", "\"", "#", "'", "(", ")", ",", "-", ".",
       "0", "1", "2", "3", "4", "5", "6", "7", "8", "9", ":", ";",
       "?", "A", "B", "C", "D", "E", "F", "G", "H", "I", "J", "K",
       "L", "M", "N", "O", "P", "R", "S", "T", "U", "V", "W", "Y",
       "a", "b", "c", "d", "e", "f", "g", "h", "i", "j", "k", "l",
       "m", "n", "o", "p", "q", "r", "s", "t", "u", "v", "w", "x",
       "y", "z" >>

\* alpha_to_num = defaultdict(int, ...): each character of the alphabet to its
\* position in it (from 0)
AlphaToNum ==
    [c \in {alphabet[i] : i \in 1..Len(alphabet)} |->
       (CHOOSE i \in 1..Len(alphabet) : alphabet[i] = c) - 1]

\* table[c] on a defaultdict(int): the value, 0 for a missing key
Lookup(table, c) == IF c \in DOMAIN table THEN table[c] ELSE 0

\* the table after table[c] for every c of s: a missing key is inserted with 0
Touched(table, s) ==
    [c \in DOMAIN table \cup {s[i] : i \in 1..Len(s)} |-> Lookup(table, c)]

\* np.array(list(map(lambda x: alpha_to_num[x], ascii_string)) + [0])
encode_ascii(ascii_string, table) ==
    [i \in 1..Len(ascii_string) |-> Lookup(table, ascii_string[i])] \o <<0>>

\* ------------------------------------------- offsets <-> coordinates
RECURSIVE CumSum(_, _, _)
CumSum(a, accx, accy) ==
    IF a = <<>> THEN <<>>
    ELSE LET x == QAdd(accx, a[1][1])
             y == QAdd(accy, a[1][2])
         IN  <<<<x, y, a[1][3]>>>> \o CumSum(Tail(a), x, y)

\* offsets_to_coords without the cumulative sum
offsets_to_coords_no_cumsum(offsets) == offsets

\* np.concatenate([np.cumsum(offsets[:, :2], axis=0), offsets[:, 2:3]], axis=1)
offsets_to_coords(offsets) == CumSum(offsets, Q(0), Q(0))

\* coords_to_offsets taking the eos column from coords[:-1]
coords_to_offsets_prev_eos(coords) ==
    <<<<Q(0), Q(0), 1>>>> \o
    [i \in 1..(IF Len(coords) = 0 THEN 0 ELSE Len(coords) - 1) |->
        << QSub(coords[i + 1][1], coords[i][1]),
           QSub(coords[i + 1][2], coords[i][2]),
           coords[i][3] >>]

\* coords[1:, :2] - coords[:-1, :2] with coords[1:, 2:3], after the row [0, 0, 1]
coords_to_offsets(coords) ==
    <<<<Q(0), Q(0), 1>>>> \o
    [i \in 1..(IF Len(coords) = 0 THEN 0 ELSE Len(coords) - 1) |->
        << QSub(coords[i + 1][1], coords[i][1]),
           QSub(coords[i + 1][2], coords[i][2]),
           coords[i + 1][3] >>]

\* --------------------------------------------------- stroke splitting
\* np.split(coords, np.where(coords[:, 2] == 1)[0] + 1, axis=0): the pieces end
\* after each row with eos = 1; the last piece holds the rows after the last
\* such row and is empty when there are none.
RECURSIVE SplitAcc(_, _)
SplitAcc(rest, cur) ==
    IF rest = <<>> THEN <<cur>>
    ELSE IF rest[1][3] = 1
         THEN <<Append(cur, rest[1])>> \o SplitAcc(Tail(rest), <<>>)
         ELSE SplitAcc(Tail(rest), Append(cur, rest[1]))

Split(coords) == SplitAcc(coords, <<>>)

RECURSIVE Flatten(_)
Flatten(ss) == IF ss = <<>> THEN <<>> ELSE ss[1] \o Flatten(Tail(ss))

\* np.vstack(list): raises ValueError on an empty list
VStack(ss) == IF ss = <<>> THEN Raise("ValueError") ELSE Ret(Flatten(ss))

\* ------------------------------------------------------------- denoise
\* savgol_filter(v, 7, 3, mode='nearest'): window 7, cubic fit; the smoothing
\* weights are (-2, 3, 6, 7, 6, 3, -2) / 21 and the vector is extended at both
\* ends by its edge value.
SavgolWindow == 7
SavgolCoeffs == <<-2, 3, 6, 7, 6, 3, -2>>
SavgolNorm == 21

Clamp(i, n) == IF i < 1 THEN 1 ELSE IF i > n THEN n ELSE i

savgol_filter(v) ==
    LET h == (SavgolWindow - 1) \div 2
    IN  [i \in 1..Len(v) |->
           QDiv(QSum([j \in 1..SavgolWindow |->
                        QMul(Q(SavgolCoeffs[j]), v[Clamp(i + j - 1 - h, Len(v))])]),
                Q(SavgolNorm))]

DenoiseStroke(stroke) ==
    LET x_new == savgol_filter(Col(stroke, 1))
        y_new == savgol_filter(Col(stroke, 2))
    IN  [i \in 1..Len(stroke) |-> <<x_new[i], y_new[i], stroke[i][3]>>]

\* denoise filtering the whole array at once, ignoring the stroke boundaries
denoise_whole_array(coords) ==
    IF coords = <<>> THEN Raise("ValueError") ELSE Ret(DenoiseStroke(coords))

denoise(coords) ==
    LET strokes == Split(coords)
        new_coords == [k \in 1..Len(strokes) |->
                         IF Len(strokes[k]) # 0 THEN DenoiseStroke(strokes[k]) ELSE <<>>]
        kept == SelectSeq(new_coords, LAMBDA s : s # <<>>)
    IN  VStack(kept)

\* --------------------------------------------------------- interpolate
\* np.linspace(0, L - 1, n), n >= 2: the n parameter values 0 .. L-1
linspace(L, n) == [i \in 1..n |-> Frac((i - 1) * (L - 1), n - 1)]

\* whether v[i] = v[1] + (i - 1) * (v[2] - v[1]) for every i
IsAffine(v) ==
    \A i \in 1..Len(v) : v[i] = QAdd(v[1], QMul(Q(i - 1), QSub(v[2], v[1])))

\* The cubic through (0, v[1]), (1, v[2]), (2, v[3]), (3, v[4]) at t (Lagrange form)
Cubic4(v, t) ==
    LET t1 == QSub(t, Q(1))
        t2 == QSub(t, Q(2))
        t3 == QSub(t, Q(3))
        l0 == QDiv(QMul(QMul(t1, t2), t3), Q(-6))
        l1 == QDiv(QMul(QMul(t, t2), t3), Q(2))
        l2 == QDiv(QMul(QMul(t, t1), t3), Q(-2))
        l3 == QDiv(QMul(QMul(t, t1), t2), Q(6))
    IN  QSum(<<QMul(l0, v[1]), QMul(l1, v[2]), QMul(l2, v[3]), QMul(l3, v[4])>>)

\* interp1d(np.arange(len(v)), v, kind='cubic')(t): the not-a-knot cubic spline
\* through the points (i, v[i]).  On four points it is the one cubic through
\* them; on data affine in i it is that affine function.  These are the two
\* cases the model evaluates (the input sets hold no other stroke of more than
\* three points).
interp1d_cubic(v, t) ==
    IF Len(v) = 4 THEN Cubic4(v, t)
    ELSE QAdd(v[1], QMul(t, QSub(v[2], v[1])))

InterpolateStroke(stroke, factor) ==
    LET L == Len(stroke)
        tt == linspace(L, factor * L)
        xy_coords ==
            IF L > 3
            THEN [i \in 1..(factor * L) |->
                    << interp1d_cubic(Col(stroke, 1), tt[i]),
                       interp1d_cubic(Col(stroke, 2), tt[i]) >>]
            ELSE [i \in 1..L |-> <<stroke[i][1], stroke[i][2]>>]
        n == Len(xy_coords)
    IN  [i \in 1..n |-> <<xy_coords[i][1], xy_coords[i][2], IF i = n THEN 1 ELSE 0>>]

\* interpolate resampling the whole array as one stroke
interpolate_whole_array(coords, factor) ==
    IF coords = <<>> THEN Raise("ValueError") ELSE Ret(InterpolateStroke(coords, factor))

interpolate(coords, factor) ==
    LET strokes == SelectSeq(Split(coords), LAMBDA s : Len(s) # 0)
    IN  VStack([k \in 1..Len(strokes) |-> InterpolateStroke(strokes[k], factor)])

\* --------------------------------------------------------------- align
\* floor of the square root of n >= 0
RECURSIVE ISqrtIn(_, _, _)
ISqrtIn(n, lo, hi) ==
    IF lo >= hi THEN lo
    ELSE LET mid == (lo + hi + 1) \div 2
         IN  IF mid * mid <= n THEN ISqrtIn(n, mid, hi) ELSE ISqrtIn(n, lo, mid - 1)

ISqrt(n) == ISqrtIn(n, 0, IF n < 46340 THEN n ELSE 46340)
IsSquare(n) == ISqrt(n) * ISqrt(n) = n

\* sqrt(1 + s^2) for a rational s = p/q is sqrt(p^2 + q^2) / q: a rational when
\* p^2 + q^2 is a perfect square.
HasRationalHypot(s) == IsSquare(s[1] * s[1] + s[2] * s[2])
Hypot1(s) == Frac(CHOOSE r \in {ISqrt(s[1] * s[1] + s[2] * s[2])} :
                     r * r = s[1] * s[1] + s[2] * s[2], s[2])

\* inv([[N, Sx], [Sx, Sxx]]) . [Sy, Sxy] = [offset, slope], by the determinant
Solve2(det, N, Sx, Sy, Sxx, Sxy) ==
    [det |-> det,
     offset |-> IF det = Q(0) THEN Q(0) ELSE QDiv(QSub(QMul(Sxx, Sy), QMul(Sx, Sxy)), det),
     slope |-> IF det = Q(0) THEN Q(0) ELSE QDiv(QSub(QMul(N, Sxy), QMul(Sx, Sy)), det)]

Solve(N, Sx, Sy, Sxx, Sxy) ==
    Solve2(QSub(QMul(N, Sxx), QMul(Sx, Sx)), N, Sx, Sy, Sxx, Sxy)

\* The normal equations X^T X b = X^T Y of the design matrix X = [1, x]:
\* X^T X = [[N, Sx], [Sx, Sxx]], X^T Y = [Sy, Sxy].
NormalEq(coords) == Solve(Q(Len(coords)), QSum(Col(coords, 1)), QSum(Col(coords, 2)),
                          QSum([i \in 1..Len(coords) |-> QMul(coords[i][1], coords[i][1])]),
                          QSum([i \in 1..Len(coords) |-> QMul(coords[i][1], coords[i][2])]))

\* Whether align's result on an (N, 2) array is a rational the model evaluates:
\* the matrix is singular (np.linalg.inv raises) or cos/sin of arctan(slope)
\* are rational.
AlignEvaluates(coords) ==
    NormalEq(coords).det = Q(0) \/ HasRationalHypot(NormalEq(coords).slope)

\* each row [x, y] becomes [x cos + y sin, -x sin + y cos] - offset
RotateBy(coords, cos_t, sin_t, offset) ==
    [i \in 1..Len(coords) |->
       << QSub(QAdd(QMul(coords[i][1], cos_t), QMul(coords[i][2], sin_t)), offset),
          QSub(QSub(QMul(coords[i][2], cos_t), QMul(coords[i][1], sin_t)), offset) >>]

\* theta = arctan(slope), cos(theta) = 1 / sqrt(1 + slope^2),
\* sin(theta) = slope / sqrt(1 + slope^2)
AlignWith(coords, ne) ==
    IF ne.det = Q(0) THEN Raise("LinAlgError")
    ELSE Ret(RotateBy(coords, QDiv(Q(1), Hypot1(ne.slope)),
                      QDiv(ne.slope, Hypot1(ne.slope)), ne.offset))

\* align on an (N, 2) array: np.linalg.inv raises LinAlgError on a singular
\* X^T X
align(coords) == AlignWith(coords, NormalEq(coords))

\* np.linalg.inv reports a singular matrix only when the pivot its elimination
\* computes is exactly 0.0.  For X^T X = [[N, Sx], [Sx, Sxx]] that pivot is
\* the float64 value of Sxx - (Sx / N) Sx (rows swapped when |Sx| > N): with
\* no row, or every x equal to 0, every operand is 0 and so is the pivot;
\* otherwise it is the rounding residue of a product and a difference.
PivotExact(coords) == \A i \in 1..Len(coords) : coords[i][1] = Q(0)

\* (offset, slope) left by an inverse taken over a residue pivot
ResidueFits == {<<Q(0), Q(0)>>, <<Q(0), Frac(3, 4)>>, <<Q(1), Q(0)>>}

\* The outcomes of align(coords) in float64: the exact one when X^T X is
\* regular or its pivot is exactly zero; on a singular X^T X with a residue
\* pivot, LinAlgError where the residue is 0.0 and a returned array, rotated
\* and shifted by whatever the residue leaves, where it is not.
align_outcomes(coords) ==
    IF NormalEq(coords).det # Q(0) \/ PivotExact(coords) THEN {align(coords)}
    ELSE {Raise("LinAlgError")} \cup
         {Ret(RotateBy(coords, QDiv(Q(1), Hypot1(f[2])), QDiv(f[2], Hypot1(f[2])), f[1])) :
            f \in ResidueFits}

\* ------------------------------------------- the generator np.random
\* add_messiness draws from the process-wide generator np.random.  Its state g
\* is a seed and a position; draw number pos yields bit pos of the seed (the
\* bits repeat with period SeedBits), so the seeds 0 .. 2^SeedBits - 1 cover
\* every combination of outcomes of SeedBits consecutive draws.
SeedBits == 3

RECURSIVE Pow2(_)
Pow2(k) == IF k = 0 THEN 1 ELSE 2 * Pow2(k - 1)

Seeds == 0..(Pow2(SeedBits) - 1)
Generators == [seed : Seeds, pos : 0..(SeedBits - 1)]

Bit(g, k) == (g.seed \div Pow2((g.pos + k) % SeedBits)) % 2
Advance(g, k) == [g EXCEPT !.pos = (g.pos + k) % SeedBits]

\* k-th next outcome of np.random.uniform(lo, hi): lo, or the midpoint
uniform(lo, hi, g, k) == IF Bit(g, k) = 0 THEN lo ELSE QDiv(QAdd(lo, hi), Q(2))

\* k-th next outcome of np.random.normal(0, sigma): -sigma, or 0
normal(sigma, g, k) == IF Bit(g, k) = 0 THEN QNeg(sigma) ELSE Q(0)

\* ------------------------------------------------------- add_messiness
\* np.pi / 180, to the rational 1/57
PiOver180 == Frac(1, 57)

\* (cos, sin) of the angle a (radians), at the rational point of the unit
\* circle with half-angle tangent a/2: an exact rotation by 2 atan(a/2), which
\* is a up to a^3/12.
CosSin(a) ==
    LET t == QDiv(a, Q(2))
        tt == QMul(t, t)
        d == QAdd(Q(1), tt)
    IN  <<QDiv(QSub(Q(1), tt), d), QDiv(QMul(Q(2), t), d)>>

\* positions (1-based) of the rows with eos = 1: np.where(coords[:, 2] == 1)[0]
stroke_ends(coords) ==
    LET idx == [i \in 1..Len(coords) |-> i]
    IN  SelectSeq(idx, LAMBDA i : coords[i][3] = 1)

\* np.concatenate([[0], stroke_ends[:-1] + 1]) (1-based)
stroke_starts(coords) ==
    LET e == stroke_ends(coords)
    IN  <<1>> \o [k \in 1..(IF Len(e) = 0 THEN 0 ELSE Len(e) - 1) |-> e[k] + 1]

normal_factor(messiness_factor) ==
    IF QLe(messiness_factor, Q(1)) THEN messiness_factor ELSE Q(1)

\* rush_factor with the level clamped at 1.5
rush_factor_clamped(messiness_factor) ==
    IF QLe(messiness_factor, Q(1)) THEN Q(0)
    ELSE QSub(QMin2(messiness_factor, Frac(3, 2)), Q(1))

rush_factor(messiness_factor) ==
    IF QLe(messiness_factor, Q(1)) THEN Q(0) ELSE QSub(messiness_factor, Q(1))

\* 1. forward lean: the angle base_lean + rush_lean (draws 0 and 1)
TotalLean(nf, rf, g) ==
    QAdd(QMul(QMul(nf, uniform(Q(-2), Q(8), g, 0)), PiOver180),
         QMul(QMul(rf, uniform(Q(3), Q(10), g, 1)), PiOver180))

\* Rotate rebuilding the rows from x_new, y_new and a zero eos column
Rotate_zero_eos(sc, cs, cx, cy) ==
    [i \in 1..Len(sc) |->
       << QAdd(QSub(QMul(QSub(sc[i][1], cx), cs[1]), QMul(QSub(sc[i][2], cy), cs[2])), cx),
          QAdd(QAdd(QMul(QSub(sc[i][1], cx), cs[2]), QMul(QSub(sc[i][2], cy), cs[1])), cy),
          0 >>]

\* the rows rotated by (cos, sin) = cs about (cx, cy)
Rotate(sc, cs, cx, cy) ==
    [i \in 1..Len(sc) |->
       << QAdd(QSub(QMul(QSub(sc[i][1], cx), cs[1]), QMul(QSub(sc[i][2], cy), cs[2])), cx),
          QAdd(QAdd(QMul(QSub(sc[i][1], cx), cs[2]), QMul(QSub(sc[i][2], cy), cs[1])), cy),
          sc[i][3] >>]

\* if abs(total_lean) > 0.01: rotate about the stroke's mean point
Lean(sc, total_lean) ==
    IF QLt(Frac(1, 100), QAbs(total_lean))
    THEN Rotate(sc, CosSin(total_lean), QMean(Col(sc, 1)), QMean(Col(sc, 2)))
    ELSE sc

ShiftY(sc, dy) == [i \in 1..Len(sc) |-> <<sc[i][1], QAdd(sc[i][2], dy), sc[i][3]>>]

\* 2. baseline drift (draws 2 and 3)
BaselineDrift(sc, nf, rf, g) ==
    ShiftY(sc, QAdd(QMul(nf, uniform(Q(-1), Q(1), g, 2)),
                    QMul(rf, uniform(Q(-2), Q(2), g, 3))))

ScaleYAbout(sc, f, cy) ==
    [i \in 1..Len(sc) |-> <<sc[i][1], QAdd(QMul(QSub(sc[i][2], cy), f), cy), sc[i][3]>>]

\* 3. letter height variation (draws 4 and 5)
SizeVariation(sc, nf, rf, g) ==
    ScaleYAbout(sc,
                QAdd(Q(1), QAdd(QMul(nf, uniform(Frac(-8, 100), Frac(8, 100), g, 4)),
                                QMul(rf, uniform(Frac(-12, 100), Frac(12, 100), g, 5)))),
                QMean(Col(sc, 2)))

ScaleXAbout(sc, f, cx) ==
    [i \in 1..Len(sc) |-> <<QAdd(QMul(QSub(sc[i][1], cx), f), cx), sc[i][2], sc[i][3]>>]

\* 4. horizontal compression: 1 - (normal_factor * 0.05 + rush_factor * 0.15)
Compression(sc, nf, rf) ==
    ScaleXAbout(sc,
                QSub(Q(1), QAdd(QMul(nf, Frac(5, 100)), QMul(rf, Frac(15, 100)))),
                QMean(Col(sc, 1)))

\* 5. pen pressure: np.random.normal(0, pressure_var, (L, 2)) * 0.3 added when
\* the stroke has more than 3 rows (draws 6 .. 5 + 2 L, row by row)
Pressure(sc, pressure_var, g) ==
    IF Len(sc) > 3
    THEN [i \in 1..Len(sc) |->
            << QAdd(sc[i][1], QMul(normal(pressure_var, g, 6 + 2 * (i - 1)), Frac(3, 10))),
               QAdd(sc[i][2], QMul(normal(pressure_var, g, 7 + 2 * (i - 1)), Frac(3, 10))),
               sc[i][3] >>]
    ELSE sc

\* number of draws effects 1-5 make on a stroke of L >= 2 rows
StrokeDraws(L) == IF L > 3 THEN 6 + 2 * L ELSE 6

\* Effects 1-5, in order, on one stroke of two or more rows
MessStroke(sc, nf, rf, g) ==
    Pressure(
        Compression(
            SizeVariation(
                BaselineDrift(Lean(sc, TotalLean(nf, rf, g)), nf, rf, g),
                nf, rf, g),
            nf, rf),
        QAdd(QMul(nf, Frac(1, 10)), QMul(rf, Frac(2, 10))), g)

Min2Len(a, b) == IF Len(a) < Len(b) THEN Len(a) ELSE Len(b)

\* a[lo..hi] := rows (1-based, inclusive)
Splice(a, lo, rows) ==
    [i \in 1..Len(a) |-> IF i >= lo /\ i < lo + Len(rows) THEN rows[i - lo + 1] ELSE a[i]]

\* for start, end in zip(stroke_starts, stroke_ends + 1): strokes k .. of the
\* zip, n draws made so far
RECURSIVE StrokeLoop(_, _, _, _, _, _, _, _)
StrokeLoop(coords, starts, ends, k, nf, rf, g, n) ==
    IF k > Len(starts) \/ k > Len(ends) THEN [coords |-> coords, draws |-> n]
    ELSE LET stroke_coords == SubSeq(coords, starts[k], ends[k])
         IN  IF Len(stroke_coords) < 2
             THEN StrokeLoop(coords, starts, ends, k + 1, nf, rf, g, n)
             ELSE StrokeLoop(Splice(coords, starts[k],
                                    MessStroke(stroke_coords, nf, rf, Advance(g, n))),
                             starts, ends, k + 1, nf, rf, g,
                             n + StrokeDraws(Len(stroke_coords)))

\* for i in range(1, len(stroke_starts)): coords[stroke_starts[i]:] += [total_spacing, 0, 0]
RECURSIVE SpacingLoop(_, _, _, _, _, _, _)
SpacingLoop(coords, starts, i, nf, rf, g, n) ==
    IF i > Len(starts) THEN [coords |-> coords, draws |-> n]
    ELSE LET base_spacing == QMul(nf, uniform(Q(-2), Q(4), g, n))
             rush_spacing == QMul(rf, uniform(Q(-4), Q(8), g, n + 1))
             total_spacing == QAdd(base_spacing, rush_spacing)
             shifted == [j \in 1..Len(coords) |->
                           IF j >= starts[i]
                           THEN <<QAdd(coords[j][1], total_spacing), coords[j][2], coords[j][3]>>
                           ELSE coords[j]]
         IN  SpacingLoop(shifted, starts, i + 1, nf, rf, g, n + 2)

\* np.sin(progress * np.pi) where it is rational: progress a multiple of 1/6
\* whose sine is 0, 1/2 or 1 in absolute value
SinPi(progress) ==
    LET m == ((6 * progress[1]) \div progress[2]) % 12
    IN  CASE progress[2] \in {1, 2, 3, 6} /\ m \in {0, 6} -> Q(0)
          [] progress[2] \in {1, 2, 3, 6} /\ m \in {1, 5} -> Frac(1, 2)
          [] progress[2] \in {1, 2, 3, 6} /\ m = 3 -> Q(1)
          [] progress[2] \in {1, 2, 3, 6} /\ m \in {7, 11} -> Frac(-1, 2)
          [] progress[2] \in {1, 2, 3, 6} /\ m = 9 -> Q(-1)

SinPiEvaluates(progress) ==
    /\ progress[2] \in {1, 2, 3, 6}
    /\ ((6 * progress[1]) \div progress[2]) % 12 \in {0, 1, 3, 5, 6, 7, 9, 11}

\* the fewest rows above which step 7 can apply
DriftMinLen == 10

\* progress = (coords[i, 0] - coords[0, 0]) / x_range
Progress(coords, x_range, i) == QDiv(QSub(coords[i][1], coords[1][1]), x_range)

\* GlobalDrift drawing its amplitude before it looks at x_range
GlobalDrift_draws_first(coords, rf, g, n) ==
    IF QLt(Q(0), rf) /\ Len(coords) > DriftMinLen
    THEN LET x_range == QSub(coords[Len(coords)][1], coords[1][1])
         IN  IF QLt(Q(0), x_range)
             THEN LET drift_amplitude == QMul(rf, uniform(Q(-3), Q(3), g, n))
                  IN  [coords |->
                         [i \in 1..Len(coords) |->
                            LET progress == Progress(coords, x_range, i)
                            IN  << coords[i][1],
                                   QAdd(coords[i][2], QMul(drift_amplitude, SinPi(progress))),
                                   coords[i][3] >>],
                       draws |-> n + 1, applied |-> TRUE]
             ELSE [coords |-> coords, draws |-> n + 1, applied |-> FALSE]
    ELSE [coords |-> coords, draws |-> n, applied |-> FALSE]

\* 7. gradual baseline drift across the entire text (rush mode only)
GlobalDrift(coords, rf, g, n) ==
    IF QLt(Q(0), rf) /\ Len(coords) > DriftMinLen
    THEN LET x_range == QSub(coords[Len(coords)][1], coords[1][1])
         IN  IF QLt(Q(0), x_range)
             THEN LET drift_amplitude == QMul(rf, uniform(Q(-3), Q(3), g, n))
                  IN  [coords |->
                         [i \in 1..Len(coords) |->
                            LET progress == Progress(coords, x_range, i)
                            IN  << coords[i][1],
                                   QAdd(coords[i][2], QMul(drift_amplitude, SinPi(progress))),
                                   coords[i][3] >>],
                       draws |-> n + 1, applied |-> TRUE]
             ELSE [coords |-> coords, draws |-> n, applied |-> FALSE]
    ELSE [coords |-> coords, draws |-> n, applied |-> FALSE]

GlobalDriftOf(b, rf, g) == GlobalDrift(b.coords, rf, g, b.draws)

\* the slices coords[start:end] the loop visits:
\* zip(stroke_starts, stroke_ends + 1) pairs the two arrays up to the shorter
StrokeSlices(coords) ==
    [i \in 1..Min2Len(stroke_starts(coords), stroke_ends(coords)) |->
       SubSeq(coords, stroke_starts(coords)[i], stroke_ends(coords)[i])]

\* 6. letter and word spacing, after the strokes' own effects
Spacing(a, starts, nf, rf, g) ==
    IF Len(starts) > 1 THEN SpacingLoop(a.coords, starts, 2, nf, rf, g, a.draws) ELSE a

\* effects 1-7 for normal_factor nf and rush_factor rf
MessAll(coords, nf, rf, g) ==
    GlobalDriftOf(Spacing(StrokeLoop(coords, stroke_starts(coords), stroke_ends(coords),
                                     1, nf, rf, g, 0),
                          stroke_starts(coords), nf, rf, g),
                  rf, g)

\* the result of working on coords = np.copy(coords)
Copied(r) == [coords |-> r.coords, draws |-> r.draws, alias |-> FALSE]

\* add_messiness returning early only below zero (< in place of <=)
add_messiness_below_zero(coords, messiness_factor, g) ==
    IF QLt(messiness_factor, Q(0))
    THEN [coords |-> coords, draws |-> 0, alias |-> TRUE]
    ELSE Copied(MessAll(coords, normal_factor(messiness_factor),
                        rush_factor(messiness_factor), g))

\* add_messiness(coords, messiness_factor) with np.random in state g.  Returns
\* the array, the number of draws made, and whether the array returned is the
\* very array passed in (alias) rather than a copy.
add_messiness(coords, messiness_factor, g) ==
    IF QLe(messiness_factor, Q(0))
    THEN [coords |-> coords, draws |-> 0, alias |-> TRUE]
    ELSE Copied(MessAll(coords, normal_factor(messiness_factor),
                        rush_factor(messiness_factor), g))

\* ======================================================== program state
VARIABLES
    np_random,       \* state of the process-wide generator np.random
    alpha_to_num,    \* drawing.alpha_to_num: the keys it holds and their values
    fn,              \* harness: the drawing.py function applied last ("none" before)
    arg,             \* harness: the caller's array passed to it
    level,           \* harness: the messiness_factor / factor passed to it
    out,             \* harness: what the call produced
    pc,              \* Hand.write: where the call stands
    lines,           \* Hand.write arguments
    stroke_colors,
    stroke_widths,
    messiness,
    line_num,        \* index (from 0) of the line the validation loop is at
    error,           \* the exception Hand.write raised, if any
    strokes,         \* the arrays _sample returned (rebound by _draw's defaults)
    colors,          \* _draw's stroke_colors after defaulting
    widths,          \* _draw's stroke_widths after defaulting
    k,               \* number of zip items the _draw loop has consumed
    initial_coord,   \* _draw's cursor, the vertical component initial_coord[1]
    dwg,             \* the svgwrite drawing: view_height and the added elements
    calls,           \* the calls made so far, in order: "_sample", "_draw"
    saved            \* whether dwg.save() wrote the output file

harness == <<fn, arg, level, out>>
hand == <<pc, lines, stroke_colors, stroke_widths, messiness, line_num, error,
          strokes, colors, widths, k, initial_coord, dwg, calls, saved>>
vars == <<np_random, alpha_to_num, harness, hand>>

\* an optional argument: None, or a list
Absent == [given |-> FALSE, val |-> <<>>]
Given(v) == [given |-> TRUE, val |-> v]
NoOut == [tag |-> "none"]
NoError == [kind |-> "none", line_num |-> -1, char |-> "", length |-> 0]
NoDrawing == [view_width |-> 0, view_height |-> 0, elements |-> <<>>]

HandIdle ==
    /\ pc = "idle" /\ lines = <<>> /\ stroke_colors = Absent /\ stroke_widths = Absent
    /\ messiness = Q(0) /\ line_num = 0 /\ error = NoError /\ strokes = <<>>
    /\ colors = <<>> /\ widths = <<>> /\ k = 0 /\ initial_coord = Q(0)
    /\ dwg = NoDrawing /\ calls = <<>> /\ saved = FALSE

HarnessIdle == fn = "none" /\ arg = <<>> /\ level = Q(0) /\ out = NoOut

\* ------------------------------------------------------------ Hand.write
\* the length limit of Hand.write's validation loop
MaxLineLen == 75

valid_char_set == {alphabet[i] : i \in 1..Len(alphabet)}

\* FirstInvalid reporting the last disallowed character instead of the first
FirstInvalid_last(line) ==
    LET bad == {i \in 1..Len(line) : line[i] \notin valid_char_set}
    IN  IF bad = {} THEN 0 ELSE CHOOSE i \in bad : \A j \in bad : i >= j

\* position of the first character of line outside valid_char_set, 0 if none
FirstInvalid(line) ==
    LET bad == {i \in 1..Len(line) : line[i] \notin valid_char_set}
    IN  IF bad = {} THEN 0 ELSE CHOOSE i \in bad : \A j \in bad : i <= j

\* ValidateOne when the loop checks only its first line
ValidateOne_first_line(line, n) ==
    IF n > 0 THEN NoError
    ELSE IF Len(line) > MaxLineLen
    THEN [kind |-> "too_long", line_num |-> n, char |-> "", length |-> Len(line)]
    ELSE IF \E i \in 1..Len(line) : line[i] \notin valid_char_set
         THEN [kind |-> "invalid_char", line_num |-> n,
               char |-> line[CHOOSE i \in 1..Len(line) :
                               /\ line[i] \notin valid_char_set
                               /\ \A j \in 1..(i - 1) : line[j] \in valid_char_set],
               length |-> 0]
         ELSE NoError

\* One iteration of the validation loop on lines[line_num]: the exception it
\* raises, or NoError.
ValidateOne(line, n) ==
    IF Len(line) > MaxLineLen
    THEN [kind |-> "too_long", line_num |-> n, char |-> "", length |-> Len(line)]
    ELSE IF FirstInvalid(line) # 0
         THEN [kind |-> "invalid_char", line_num |-> n,
               char |-> line[FirstInvalid(line)], length |-> 0]
         ELSE NoError

\* for line_num, line in enumerate(lines): one iteration
ValidateLine ==
    /\ pc = "validate"
    /\ line_num < Len(lines)
    /\ LET e == ValidateOne(lines[line_num + 1], line_num)
       IN  IF e.kind # "none"
           THEN /\ error' = e
                /\ pc' = "raised"
                /\ UNCHANGED line_num
           ELSE /\ line_num' = line_num + 1
                /\ UNCHANGED <<error, pc>>
    /\ UNCHANGED <<np_random, alpha_to_num, harness, lines, stroke_colors, stroke_widths, messiness,
                   strokes, colors, widths, k, initial_coord, dwg, calls, saved>>

\* the model's output for one line, before _sample strips its zero rows: a
\* (T, 3) array of rows (dx, dy, eos)
ZeroRow == <<Q(0), Q(0), 0>>

\* StripZeroRows cutting the array at its first fully-zero row
StripZeroRows_truncate(sample) ==
    IF \E i \in 1..Len(sample) : sample[i][1] = Q(0) /\ sample[i][2] = Q(0) /\ sample[i][3] = 0
    THEN SubSeq(sample, 1,
                (CHOOSE i \in 1..Len(sample) :
                    /\ sample[i][1] = Q(0) /\ sample[i][2] = Q(0) /\ sample[i][3] = 0
                    /\ \A j \in 1..(i - 1) :
                          ~(sample[j][1] = Q(0) /\ sample[j][2] = Q(0) /\ sample[j][3] = 0)) - 1)
    ELSE sample

\* sample[~np.all(sample == 0.0, axis=1)]
StripZeroRows(sample) == SelectSeq(sample, LAMBDA r : ~(r[1] = Q(0) /\ r[2] = Q(0) /\ r[3] = 0))

\* Hand._sample up to the session run: max([len(i) for i in lines]) raises
\* ValueError on an empty list
SampleRaises(ls) == ls = <<>>

line_height == 60
view_width == 1000

\* stroke_colors or ['black'] * len(lines)
DefaultColors(sc, ls) ==
    IF sc.given /\ sc.val # <<>> THEN sc.val ELSE [i \in 1..Len(ls) |-> "black"]

\* stroke_widths or [2] * len(lines)
DefaultWidths(sw, ls) ==
    IF sw.given /\ sw.val # <<>> THEN sw.val ELSE [i \in 1..Len(ls) |-> 2]

Min2(a, b) == IF a < b THEN a ELSE b

\* number of items of zip(strokes, lines, stroke_colors, stroke_widths)
ZipLen(st, ls, cs, ws) == Min2(Min2(Len(st), Len(ls)), Min2(Len(cs), Len(ws)))

\* offsets[:, :2] *= 1.5
ScaleOffsets(offsets) ==
    [i \in 1..Len(offsets) |->
       <<QMul(offsets[i][1], Frac(3, 2)), QMul(offsets[i][2], Frac(3, 2)), offsets[i][3]>>]

XY(a) == [i \in 1..Len(a) |-> <<a[i][1], a[i][2]>>]

\* strokes[:, 1] *= -1
FlipY(a) == [i \in 1..Len(a) |-> <<a[i][1], QNeg(a[i][2]), a[i][3]>>]

\* Translate with the cursor added instead of subtracted
Translate_cursor_added(f, m, cursor) ==
    [i \in 1..Len(f) |-> <<QSub(f[i][1], m), QAdd(QSub(f[i][2], m), cursor), f[i][3]>>]

\* strokes[:, :2] -= m + initial_coord, with initial_coord = [0, cursor]
Translate(f, m, cursor) ==
    [i \in 1..Len(f) |-> <<QSub(f[i][1], m), QSub(f[i][2], QAdd(m, cursor)), f[i][3]>>]

\* strokes[:, :2].min(): the least entry of both columns together
MinXY(f) == QMin2(QMinSeq(Col(f, 1)), QMinSeq(Col(f, 2)))

ShiftX(t, c) == [i \in 1..Len(t) |-> <<QAdd(t[i][1], c), t[i][2], t[i][3]>>]

\* strokes[:, 0] += (view_width - strokes[:, 0].max()) / 2
Center(t) == ShiftX(t, QDiv(QSub(Q(view_width), QMaxSeq(Col(t, 1))), Q(2)))

\* flip, translate to the cursor, centre
Place(a, cursor) == Center(Translate(FlipY(a), MinXY(FlipY(a)), cursor))

\* PathCommands with the move taken from the row's own eos
PathCommands_own_eos(a) ==
    <<<<"M", Q(0), Q(0)>>>> \o
    [i \in 1..Len(a) |->
       <<IF i = 1 \/ a[i][3] = 1 THEN "M" ELSE "L", a[i][1], a[i][2]>>]

\* the path string: "M0,0 " and then one command per row, M after a row with
\* eos = 1 (and for the first row), L otherwise
PathCommands(a) ==
    <<<<"M", Q(0), Q(0)>>>> \o
    [i \in 1..Len(a) |->
       <<IF i = 1 \/ a[i - 1][3] = 1 THEN "M" ELSE "L", a[i][1], a[i][2]>>]

\* strokes[:, :2] = drawing.align(strokes[:, :2])
WithEos(r, c) ==
    IF IsOk(r) THEN Ret([i \in 1..Len(c) |-> <<r.val[i][1], r.val[i][2], c[i][3]>>]) ELSE r

AlignXY(d) == IF IsOk(d) THEN WithEos(align(XY(d.val)), d.val) ELSE d

\* if messiness > 0.0: strokes = drawing.add_messiness(strokes, messiness)
Messy(c, m, g) ==
    IF QLt(Q(0), m) THEN add_messiness(c, m, g) ELSE [coords |-> c, draws |-> 0, alias |-> TRUE]

Placed(scaled, mess, cursor) ==
    [tag |-> "ok", scaled |-> scaled, draws |-> mess.draws, placed |-> Place(mess.coords, cursor)]

Finish(scaled, a, cursor, m, g) ==
    IF IsOk(a) THEN Placed(scaled, Messy(a.val, m, g), cursor)
    ELSE [tag |-> "raise", exc |-> a.exc, scaled |-> scaled]

\* The body of the _draw loop for a non-empty line, up to the path: the array
\* left in the list by the in-place scaling, and the placed coordinates or the
\* exception raised on the way.
DrawLineBody(offsets, cursor, m, g) ==
    Finish(ScaleOffsets(offsets),
           AlignXY(denoise(offsets_to_coords(ScaleOffsets(offsets)))), cursor, m, g)

\* ----------------------------------------------------- bounded inputs
MaxLines == 2

Rep(c, n) == [i \in 1..n |-> c]

\* lines: empty, short, of exactly MaxLineLen and MaxLineLen + 1 characters,
\* with a character outside the alphabet ('Q' and 'é' are not in it), and too
\* long with a bad first character
LineChoices ==
    { <<>>, <<"H", "i">>, Rep("a", MaxLineLen), Rep("a", MaxLineLen + 1),
      <<"H", "Q", "é">>, <<"é">> \o Rep("a", MaxLineLen) }

RECURSIVE SeqsUpTo(_, _)
SeqsUpTo(S, n) ==
    IF n = 0 THEN {<<>>}
    ELSE LET shorter == SeqsUpTo(S, n - 1)
         IN  shorter \cup {Append(s, x) : s \in {t \in shorter : Len(t) = n - 1}, x \in S}

Palette == <<"red", "green", "blue", "orange">>

\* the (stroke_colors, stroke_widths) arguments tried for n lines: both None,
\* one entry per line, an empty list, and lists one entry short
StyleChoices(n) ==
    { <<Absent, Absent>>,
      <<Given(SubSeq(Palette, 1, n)), Given([i \in 1..n |-> i])>>,
      <<Given(<<>>), Absent>> }
    \cup (IF n >= 1
          THEN { <<Given(SubSeq(Palette, 1, n - 1)), Absent>>,
                 <<Absent, Given([i \in 1..(n - 1) |-> i])>> }
          ELSE {})

MessinessChoices == {Q(0), Q(1)}

\* what the model may return for a line, zero-padded: a single point (the one
\* sample tried for a line without text), a slanted two-point stroke, a stroke
\* far above the origin, and two strokes
BlankSample == <<<<Q(0), Q(0), 1>>, ZeroRow>>

RawSampleChoices ==
    { BlankSample,
      <<<<Q(4), Q(3), 0>>, <<Q(8), Q(6), 1>>, ZeroRow>>,
      <<<<Q(2), Q(100), 0>>, <<Q(4), Q(0), 1>>, ZeroRow>>,
      <<<<Q(4), Q(0), 1>>, <<Q(4), Q(0), 0>>, <<Q(4), Q(0), 1>>, ZeroRow>> }

\* generator states Hand.write is started in
WriteGenerators ==
    {[seed |-> 0, pos |-> 0], [seed |-> 1, pos |-> 0], [seed |-> Pow2(SeedBits) - 1, pos |-> 0]}

\* ------------------------------------------------------------- actions
\* hand.write(filename, lines, stroke_colors=..., stroke_widths=..., messiness=...)
Write ==
    /\ pc = "idle"
    /\ \E ls \in SeqsUpTo(LineChoices, MaxLines), m \in MessinessChoices :
         \E st \in StyleChoices(Len(ls)) :
            /\ lines' = ls
            /\ stroke_colors' = st[1]
            /\ stroke_widths' = st[2]
            /\ messiness' = m
    /\ pc' = "validate"
    /\ line_num' = 0
    /\ UNCHANGED <<np_random, alpha_to_num, harness, error, strokes, colors, widths, k,
                   initial_coord, dwg, calls, saved>>

\* strokes = self._sample(lines, ...): raises on an empty list of lines, else
\* encodes every line and returns one stripped array per line
Sample ==
    /\ pc = "validate"
    /\ line_num = Len(lines)
    /\ calls' = Append(calls, "_sample")
    /\ IF SampleRaises(lines)
       THEN /\ error' = [kind |-> "max_empty", line_num |-> -1, char |-> "", length |-> 0]
            /\ pc' = "raised"
            /\ UNCHANGED <<strokes, alpha_to_num>>
       ELSE /\ alpha_to_num' = Touched(alpha_to_num, Flatten(lines))
            /\ \E raw \in [1..Len(lines) -> RawSampleChoices] :
                 /\ \A i \in 1..Len(lines) : lines[i] = <<>> => raw[i] = BlankSample
                 /\ strokes' = [i \in 1..Len(lines) |-> StripZeroRows(raw[i])]
            /\ pc' = "sampled"
            /\ UNCHANGED error
    /\ UNCHANGED <<np_random, harness, lines, stroke_colors, stroke_widths, messiness,
                   line_num, colors, widths, k, initial_coord, dwg, saved>>

\* self._draw(...) up to its loop: defaults, canvas, background, cursor
DrawBegin ==
    /\ pc = "sampled"
    /\ calls' = Append(calls, "_draw")
    /\ colors' = DefaultColors(stroke_colors, lines)
    /\ widths' = DefaultWidths(stroke_widths, lines)
    /\ dwg' = [view_width |-> view_width,
               view_height |-> line_height * (Len(strokes) + 1),
               elements |-> <<[kind |-> "rect", d |-> <<>>, stroke |-> "white", width |-> 0]>>]
    /\ initial_coord' = QNeg(Frac(3 * line_height, 4))
    /\ k' = 0
    /\ pc' = "draw"
    /\ UNCHANGED <<np_random, alpha_to_num, harness, lines, stroke_colors, stroke_widths, messiness,
                   line_num, error, strokes, saved>>

\* DrawItem with an empty line skipped before the cursor moves
DrawItem_empty_keeps_cursor(i, r) ==
    IF lines[i] = <<>>
    THEN UNCHANGED <<np_random, strokes, dwg, error, pc, initial_coord>>
    ELSE /\ strokes' = [strokes EXCEPT ![i] = r.scaled]
         /\ IF r.tag = "raise"
            THEN /\ error' = [kind |-> r.exc, line_num |-> i - 1, char |-> "", length |-> 0]
                 /\ pc' = "raised"
                 /\ UNCHANGED <<np_random, dwg, initial_coord>>
            ELSE /\ np_random' = Advance(np_random, r.draws)
                 /\ dwg' = [dwg EXCEPT !.elements =
                               Append(@, [kind |-> "path", d |-> PathCommands(r.placed),
                                          stroke |-> colors[i], width |-> widths[i]])]
                 /\ initial_coord' = QSub(initial_coord, Q(line_height))
                 /\ UNCHANGED <<error, pc>>

\* the loop body on item i, r the outcome of its pipeline
DrawItem(i, r) ==
    IF lines[i] = <<>>
    THEN /\ initial_coord' = QSub(initial_coord, Q(line_height))
         /\ UNCHANGED <<np_random, strokes, dwg, error, pc>>
    ELSE /\ strokes' = [strokes EXCEPT ![i] = r.scaled]
         /\ IF r.tag = "raise"
            THEN /\ error' = [kind |-> r.exc, line_num |-> i - 1, char |-> "", length |-> 0]
                 /\ pc' = "raised"
                 /\ UNCHANGED <<np_random, dwg, initial_coord>>
            ELSE /\ np_random' = Advance(np_random, r.draws)
                 /\ dwg' = [dwg EXCEPT !.elements =
                               Append(@, [kind |-> "path", d |-> PathCommands(r.placed),
                                          stroke |-> colors[i], width |-> widths[i]])]
                 /\ initial_coord' = QSub(initial_coord, Q(line_height))
                 /\ UNCHANGED <<error, pc>>

\* one iteration of: for offsets, line, color, width in zip(strokes, lines,
\* stroke_colors, stroke_widths)
DrawLine ==
    /\ pc = "draw"
    /\ k < ZipLen(strokes, lines, colors, widths)
    /\ DrawItem(k + 1, DrawLineBody(strokes[k + 1], initial_coord, messiness, np_random))
    /\ k' = IF pc' = "raised" THEN k ELSE k + 1
    /\ UNCHANGED <<alpha_to_num, harness, lines, stroke_colors, stroke_widths, messiness,
                   line_num, colors, widths, calls, saved>>

\* dwg.save() after the loop
Save ==
    /\ pc = "draw"
    /\ k = ZipLen(strokes, lines, colors, widths)
    /\ saved' = TRUE
    /\ pc' = "done"
    /\ UNCHANGED <<np_random, alpha_to_num, harness, lines, stroke_colors, stroke_widths, messiness,
                   line_num, error, strokes, colors, widths, k, initial_coord, dwg, calls>>

\* a constructed Hand, no call made yet
Init ==
    /\ np_random \in WriteGenerators
    /\ alpha_to_num = AlphaToNum
    /\ HarnessIdle
    /\ HandIdle

Next == Write \/ ValidateLine \/ Sample \/ DrawBegin \/ DrawLine \/ Save

Spec == Init /\ [][Next]_vars

\* ===================================================== drawing.py calls
\* The functions of drawing.py called on their own, as the tests call them:
\* arg is the caller's array, level the number passed with it, out the result.
MaxLen == 3
MaxFactor == 3

Points == {<<Q(0), Q(0)>>, <<Q(10), Q(0)>>, <<Q(10), Q(5)>>}
Rows == {<<p[1], p[2], e>> : p \in Points, e \in {0, 1}}

\* every (N, 3) array of at most MaxLen rows over Rows, the empty one included
ShortCoords == SeqsUpTo(Rows, MaxLen)

\* an unterminated run of n rows whose x walks the sixths of its x-range, 6,
\* at which SinPi evaluates; it ends at x = 6 for n = 11, 12, 13
GridX == <<0, 1, 3, 5, 6, 7, 5, 3, 1, 0, 6, 6, 6>>
GridRun(n, y, first_eos) ==
    [i \in 1..n |-> <<Q(GridX[((i - 1) % 13) + 1]), Q(y), IF i = 1 THEN first_eos ELSE 0>>]

\* an unterminated run of n rows all at x = 0: its x-range is zero
FlatRun(n) == [i \in 1..n |-> <<Q(0), Q(i), 0>>]

\* an unterminated run of n rows that leaves x = 0 once and ends where it
\* began: its x-range is 6, its last x minus its first x is 0
BackRun(n) == [i \in 1..n |-> <<Q(IF i = 2 THEN 6 ELSE 0), Q(0), 0>>]

\* arrays of more than DriftMinLen rows (and one of exactly DriftMinLen)
LongCoords ==
    { GridRun(DriftMinLen + 1, 0, 0), GridRun(DriftMinLen + 1, 5, 1),
      GridRun(DriftMinLen, 0, 0), GridRun(DriftMinLen + 2, 0, 0),
      FlatRun(DriftMinLen + 1), BackRun(DriftMinLen + 1) }

MessCoords == ShortCoords \cup LongCoords

\* messiness_factor: negative, zero, in (0, 1], in (1, 1.5], above 1.5
Levels == {Frac(-1, 2), Q(0), Frac(1, 2), Q(1), Frac(3, 2), Q(2)}

\* np.random before the call: every outcome of the first SeedBits draws
CallGenerators == {g \in Generators : g.pos = 0}

InitMess ==
    /\ np_random \in CallGenerators
    /\ alpha_to_num = AlphaToNum
    /\ fn = "none" /\ arg \in MessCoords /\ level \in Levels /\ out = NoOut
    /\ HandIdle

\* what the caller holds after r = add_messiness(...)
Returned(r) == [tag |-> "ok", val |-> r.coords, draws |-> r.draws, alias |-> r.alias]

\* out = drawing.add_messiness(arg, level)
AddMessiness ==
    /\ fn = "none"
    /\ fn' = "add_messiness"
    /\ out' = Returned(add_messiness(arg, level, np_random))
    /\ np_random' = Advance(np_random, out'.draws)
    /\ UNCHANGED <<alpha_to_num, arg, level, hand>>

NextMess == AddMessiness

SpecMess == InitMess /\ [][NextMess]_vars

\* ---------------------------------------- coords_to_offsets, offsets_to_coords
InitConv ==
    /\ np_random \in WriteGenerators
    /\ alpha_to_num = AlphaToNum
    /\ fn = "none" /\ arg \in ShortCoords /\ level = Q(0) /\ out = NoOut
    /\ HandIdle

\* out = drawing.coords_to_offsets(arg)
CoordsToOffsets ==
    /\ fn = "none"
    /\ fn' = "coords_to_offsets"
    /\ out' = Ret(coords_to_offsets(arg))
    /\ UNCHANGED <<np_random, alpha_to_num, arg, level, hand>>

\* out = drawing.offsets_to_coords(out): the round trip's second half
OffsetsToCoords ==
    /\ fn = "coords_to_offsets"
    /\ fn' = "round_trip"
    /\ out' = Ret(offsets_to_coords(out.val))
    /\ UNCHANGED <<np_random, alpha_to_num, arg, level, hand>>

NextConv == CoordsToOffsets \/ OffsetsToCoords

SpecConv == InitConv /\ [][NextConv]_vars

\* -------------------------------------------------------------- denoise
\* arrays longer than the filter's window: two strokes, one stroke, and a
\* stroke followed by an unterminated run
WindowCoords ==
    { [i \in 1..(SavgolWindow + 1) |->
         <<Q(i * i), Q(IF i % 2 = 0 THEN 5 ELSE 0), IF i \in ends THEN 1 ELSE 0>>] :
      ends \in {{3, SavgolWindow + 1}, {SavgolWindow + 1}, {2}} }

InitDenoise ==
    /\ np_random \in WriteGenerators
    /\ alpha_to_num = AlphaToNum
    /\ fn = "none" /\ arg \in ShortCoords \cup WindowCoords /\ level = Q(0) /\ out = NoOut
    /\ HandIdle

\* out = drawing.denoise(arg)
Denoise ==
    /\ fn = "none"
    /\ fn' = "denoise"
    /\ out' = denoise(arg)
    /\ UNCHANGED <<np_random, alpha_to_num, arg, level, hand>>

NextDenoise == Denoise

SpecDenoise == InitDenoise /\ [][NextDenoise]_vars

\* ---------------------------------------------------------- interpolate
\* strokes of more than three rows: four rows on no line, and rows affine in
\* their index, alone, after a short stroke, and before an unterminated run
Bend == << <<Q(0), Q(0), 0>>, <<Q(10), Q(0), 0>>, <<Q(10), Q(5), 0>>, <<Q(0), Q(5), 1>> >>
Ramp(n, last_eos) == [i \in 1..n |-> <<Q(2 * i), Q(5 - i), IF i = n THEN last_eos ELSE 0>>]

StrokeCoords ==
    { Bend, Ramp(5, 1), Ramp(4, 0), Ramp(6, 1) \o Bend,
      << <<Q(10), Q(5), 1>> >> \o Bend \o << <<Q(0), Q(0), 0>>, <<Q(10), Q(0), 0>> >> }

InitInterp ==
    /\ np_random \in WriteGenerators
    /\ alpha_to_num = AlphaToNum
    /\ fn = "none" /\ arg \in ShortCoords \cup StrokeCoords
    /\ level \in {Q(f) : f \in 1..MaxFactor} /\ out = NoOut
    /\ HandIdle

\* out = drawing.interpolate(arg, factor=level)
Interpolate ==
    /\ fn = "none"
    /\ fn' = "interpolate"
    /\ out' = interpolate(arg, level[1])
    /\ UNCHANGED <<np_random, alpha_to_num, arg, level, hand>>

NextInterp == Interpolate

SpecInterp == InitInterp /\ [][NextInterp]_vars

\* ---------------------------------------------------------------- align
AlignPoints == {<<Q(0), Q(0)>>, <<Q(10), Q(0)>>, <<Q(10), Q(5)>>, <<Q(4), Q(3)>>, <<Q(0), Q(5)>>}

\* every (N, 2) array of at most MaxLen rows whose fitted slope has a
\* rational cosine and sine, the empty one included
AlignCoords == {c \in SeqsUpTo(AlignPoints, MaxLen) : AlignEvaluates(c)}

InitAlign ==
    /\ np_random \in WriteGenerators
    /\ alpha_to_num = AlphaToNum
    /\ fn = "none" /\ arg \in AlignCoords /\ level = Q(0) /\ out = NoOut
    /\ HandIdle

\* out = drawing.align(arg)
Align ==
    /\ fn = "none"
    /\ fn' = "align"
    /\ out' \in align_outcomes(arg)
    /\ UNCHANGED <<np_random, alpha_to_num, arg, level, hand>>

NextAlign == Align

SpecAlign == InitAlign /\ [][NextAlign]_vars

\* ------------------------------------------- add_messiness, called twice
\* Two calls with the same array and level, any number of other np.random
\* draws between them.
PairCoords == {c \in ShortCoords : Len(c) <= 2}

InitAgain ==
    /\ np_random \in CallGenerators
    /\ alpha_to_num = AlphaToNum
    /\ fn = "none" /\ arg \in PairCoords /\ level \in Levels /\ out = NoOut
    /\ HandIdle

\* some other caller draws once from np.random
OtherDraw ==
    /\ fn = "add_messiness"
    /\ np_random' = Advance(np_random, 1)
    /\ UNCHANGED <<alpha_to_num, harness, hand>>

\* what the caller holds after the second call, with the first result kept
ReturnedAgain(r, first) ==
    [tag |-> "ok", val |-> r.coords, draws |-> r.draws, alias |-> r.alias, first |-> first]

\* out2 = drawing.add_messiness(arg, level), the same arguments again
AddMessinessAgain ==
    /\ fn = "add_messiness"
    /\ fn' = "add_messiness_again"
    /\ out' = ReturnedAgain(add_messiness(arg, level, np_random), out.val)
    /\ np_random' = Advance(np_random, out'.draws)
    /\ UNCHANGED <<alpha_to_num, arg, level, hand>>

NextAgain == AddMessiness \/ OtherDraw \/ AddMessinessAgain

SpecAgain == InitAgain /\ [][NextAgain]_vars

\* ------------------------------------------ the zero-row strip of _sample
InitStrip ==
    /\ np_random \in WriteGenerators
    /\ alpha_to_num = AlphaToNum
    /\ fn = "none" /\ arg \in ShortCoords /\ level = Q(0) /\ out = NoOut
    /\ HandIdle

\* sample[~np.all(sample == 0.0, axis=1)] on one sampled array
StripSample ==
    /\ fn = "none"
    /\ fn' = "strip"
    /\ out' = Ret(StripZeroRows(arg))
    /\ UNCHANGED <<np_random, alpha_to_num, arg, level, hand>>

NextStrip == StripSample

SpecStrip == InitStrip /\ [][NextStrip]_vars

\* ------------------------------------------------------------ encode_ascii
\* strings of letters, a space, the alphabet's '\x00' and a character outside it
TextChoices == SeqsUpTo({"a", "H", " ", "NUL", "é"}, MaxLen)

InitEncode ==
    /\ np_random \in WriteGenerators
    /\ alpha_to_num = AlphaToNum
    /\ fn = "none" /\ arg \in TextChoices /\ level = Q(0) /\ out = NoOut
    /\ HandIdle

\* out = drawing.encode_ascii(arg)
EncodeAscii ==
    /\ fn = "none"
    /\ fn' = "encode_ascii"
    /\ out' = Ret(encode_ascii(arg, alpha_to_num))
    /\ alpha_to_num' = Touched(alpha_to_num, arg)
    /\ UNCHANGED <<np_random, arg, level, hand>>

NextEncode == EncodeAscii

SpecEncode == InitEncode /\ [][NextEncode]_vars

\* ============================================================== properties
\* Vocabulary of the properties, stated apart from the operators above.
InAlphabet(c) == \E i \in 1..Len(alphabet) : alphabet[i] = c
LineOk(line) == Len(line) <= 75 /\ \A i \in 1..Len(line) : InAlphabet(line[i])
Offending(ls) == {i \in 1..Len(ls) : ~LineOk(ls[i])}
FirstOffending(ls) == CHOOSE i \in Offending(ls) : \A j \in Offending(ls) : i <= j
FirstBadChar(line) ==
    line[CHOOSE i \in 1..Len(line) :
           ~InAlphabet(line[i]) /\ \A j \in 1..(i - 1) : InAlphabet(line[j])]
Called(name) == \E i \in 1..Len(calls) : calls[i] = name
Paths == SelectSeq(dwg.elements, LAMBDA e : e.kind = "path")
NonEmptyLines == SelectSeq([i \in 1..Len(lines) |-> i], LAMBDA i : lines[i] # <<>>)
SameLiftColumn(a, b) == Len(a) = Len(b) /\ \A i \in 1..Len(a) : a[i][3] = b[i][3]
TotalAbsDiff(a, b) ==
    QSum([i \in 1..Len(a) |->
            QAdd(QAbs(QSub(a[i][1], b[i][1])), QAbs(QSub(a[i][2], b[i][2])))])
XNotAllEqual(stroke) == \E i \in 1..Len(stroke) : stroke[i][1] # stroke[1][1]
\* the strokes of an array: its maximal runs of rows between pen lifts
StrokesOf(coords) == SelectSeq(Split(coords), LAMBDA st : st # <<>>)
RECURSIVE RowsBefore(_, _)
RowsBefore(ss, n0) == IF n0 <= 1 THEN 0 ELSE Len(ss[n0 - 1]) + RowsBefore(ss, n0 - 1)
RECURSIVE SumLens(_)
SumLens(ls) == IF ls = <<>> THEN 0 ELSE Head(ls) + SumLens(Tail(ls))

\* C1: Hand.write's validation passes a list of lines exactly when every line
\* has at most 75 characters and only characters of the alphabet; otherwise it
\* raises at the first offending line, citing its index: a length error if
\* that line is longer than 75 characters, else an invalid-character error
\* naming that line's first disallowed character.
C1_validation ==
    /\ (Called("_sample") \/ (pc = "validate" /\ line_num = Len(lines)))
          => Offending(lines) = {}
    /\ (pc = "raised" /\ ~Called("_sample")) =>
          /\ Offending(lines) # {}
          /\ error.line_num = FirstOffending(lines) - 1
          /\ IF Len(lines[FirstOffending(lines)]) > 75
             THEN error.kind = "too_long"
                  /\ error.length = Len(lines[FirstOffending(lines)])
             ELSE error.kind = "invalid_char"
                  /\ error.char = FirstBadChar(lines[FirstOffending(lines)])
    /\ (pc = "validate" /\ line_num < Len(lines)) =>
          \A i \in 1..line_num : LineOk(lines[i])

\* a valid line, then a line with two disallowed characters: rejected at
\* index 1, naming the first of them
C1_witness ==
    /\ pc = "raised" /\ Len(lines) = 2 /\ LineOk(lines[1])
    /\ error.kind = "invalid_char" /\ error.line_num = 1 /\ error.char = "Q"

\* C2: every line is validated before _sample and before _draw; if any line
\* is invalid, neither is ever called and no output file is written.
C2_fail_fast ==
    /\ calls # <<>> => (line_num = Len(lines) /\ Offending(lines) = {})
    /\ (pc # "idle" /\ Offending(lines) # {}) =>
          (calls = <<>> /\ ~saved /\ dwg = NoDrawing /\ strokes = <<>>)

\* a list whose second line alone is invalid, rejected with nothing called
C2_witness ==
    /\ pc = "raised" /\ Offending(lines) = {2} /\ calls = <<>> /\ ~saved

\* C9 (as claimed): a successful Hand.write leaves exactly one path per
\* non-empty line and none for an empty one, whatever stroke_colors and
\* stroke_widths were passed, each path carrying its line's color and width.
C9_one_path_per_line ==
    pc = "done" =>
       /\ Len(Paths) = Len(NonEmptyLines)
       /\ \A j \in 1..Len(Paths) :
             /\ NonEmptyLines[j] <= Len(colors) /\ Paths[j].stroke = colors[NonEmptyLines[j]]
             /\ NonEmptyLines[j] <= Len(widths) /\ Paths[j].width = widths[NonEmptyLines[j]]

\* the y of every command of every path lies in lo .. hi
PathsWithin(lo, hi) ==
    \A j \in 1..Len(Paths) : \A n \in 1..Len(Paths[j].d) :
       QLe(lo, Paths[j].d[n][3]) /\ QLe(Paths[j].d[n][3], hi)

PathsAtOrBelow(lo) ==
    \A j \in 1..Len(Paths) : \A n \in 1..Len(Paths[j].d) : QLe(lo, Paths[j].d[n][3])

C3_identity ==
    (fn = "add_messiness" /\ QLe(level, Q(0))) => (out.val = arg /\ out.draws = 0)

\* level 0.0 on an array with a terminated stroke of two points
C3_witness ==
    /\ fn = "add_messiness" /\ level = Q(0)
    /\ arg = << <<Q(0), Q(0), 0>>, <<Q(10), Q(0), 1>> >>

\* C4: for every level, every outcome of the draws and every array (the empty
\* one and a single point included), add_messiness returns as many rows and
\* columns as it was given and the same penLift column.
C4_shape ==
    fn = "add_messiness" =>
       /\ SameLiftColumn(out.val, arg)
       /\ \A i \in 1..Len(out.val) : Len(out.val[i]) = 3

\* a level above 1.5 on two terminated strokes, the values changed
C4_witness ==
    /\ fn = "add_messiness" /\ level = Q(2)
    /\ Len(stroke_ends(arg)) = 2 /\ Len(arg) = 3 /\ out.val # arg

\* C8 (as claimed): for every level > 0 and every array with a stroke of two
\* or more points whose x are not all equal, the total absolute difference of
\* the (x, y) returned from the (x, y) passed is nonzero.
C8_changed ==
    (/\ fn = "add_messiness" /\ QLt(Q(0), level)
     /\ \E n0 \in 1..Len(StrokesOf(arg)) :
           Len(StrokesOf(arg)[n0]) >= 2 /\ XNotAllEqual(StrokesOf(arg)[n0]))
    => TotalAbsDiff(out.val, arg) # Q(0)

\* C5 (as claimed): offsets_to_coords(coords_to_offsets(c)), c non-empty, has
\* c's row count, row i at c[i] - c[0], and c's penLift column.
C5_round_trip ==
    (fn = "round_trip" /\ arg # <<>>) =>
       /\ SameLiftColumn(out.val, arg)
       /\ \A i \in 1..Len(arg) :
             /\ out.val[i][1] = QSub(arg[i][1], arg[1][1])
             /\ out.val[i][2] = QSub(arg[i][2], arg[1][2])

\* C5 (amended): offsets_to_coords(coords_to_offsets(c)), c non-empty, has
\* c's row count, row i at c[i] - c[0], and c's penLift column except in row
\* 0, whose penLift is 1.
C5_round_trip_first_lift ==
    (fn = "round_trip" /\ arg # <<>>) =>
       /\ Len(out.val) = Len(arg)
       /\ out.val[1][3] = 1
       /\ \A i \in 2..Len(arg) : out.val[i][3] = arg[i][3]
       /\ \A i \in 1..Len(arg) :
             /\ out.val[i][1] = QSub(arg[i][1], arg[1][1])
             /\ out.val[i][2] = QSub(arg[i][2], arg[1][2])

\* three rows starting away from the origin with the pen down
C5_witness ==
    /\ fn = "round_trip" /\ Len(arg) = 3
    /\ arg[1] = <<Q(10), Q(5), 0>> /\ arg[3] = <<Q(0), Q(0), 1>>

\* C6: on a non-empty array denoise returns as many rows with the same
\* penLift column in the same order, and the rows of each stroke are what
\* denoise returns for that stroke alone.
C6_denoise ==
    (fn = "denoise" /\ arg # <<>>) =>
       /\ IsOk(out)
       /\ SameLiftColumn(out.val, arg)
       /\ \A n0 \in 1..Len(StrokesOf(arg)) :
             SubSeq(out.val, RowsBefore(StrokesOf(arg), n0) + 1,
                    RowsBefore(StrokesOf(arg), n0) + Len(StrokesOf(arg)[n0]))
                = denoise(StrokesOf(arg)[n0]).val

\* two strokes in an array longer than the window, smoothed
C6_witness ==
    /\ fn = "denoise" /\ Len(arg) = SavgolWindow + 1 /\ Len(stroke_ends(arg)) = 2
    /\ IsOk(out) /\ out.val # arg

\* the length interpolate gives a stroke of L rows at factor f
Resampled(L, f) == IF L > 3 THEN f * L ELSE L

\* C7 (as claimed): for every array and factor k >= 1, interpolate turns each
\* stroke of L > 3 rows into k * L rows and leaves the (x, y) of each shorter
\* stroke unchanged, strokes in order; the row count is the sum of these.
C7_interpolate ==
    fn = "interpolate" =>
       /\ IsOk(out)
       /\ Len(out.val) =
             SumLens([n0 \in 1..Len(StrokesOf(arg)) |-> Resampled(Len(StrokesOf(arg)[n0]), level[1])])
       /\ \A n0 \in 1..Len(StrokesOf(arg)) :
             Len(StrokesOf(arg)[n0]) <= 3 =>
                \A i \in 1..Len(StrokesOf(arg)[n0]) :
                   LET at == SumLens([j \in 1..(n0 - 1) |->
                                        Resampled(Len(StrokesOf(arg)[j]), level[1])]) + i
                   IN  /\ out.val[at][1] = StrokesOf(arg)[n0][i][1]
                       /\ out.val[at][2] = StrokesOf(arg)[n0][i][2]

\* C11 (as claimed): add_messiness draws only from a generator passed to it,
\* so two calls with equal array, level and generator arguments return equal
\* outputs whatever the global random state and the draws made in between.
C11_same_output ==
    fn = "add_messiness_again" => out.val = out.first

IsZeroRow(r) == r[1] = Q(0) /\ r[2] = Q(0) /\ r[3] = 0
\* the indices of the rows of a that are not zero in all three fields
NonZeroIdx(a) == SelectSeq([i \in 1..Len(a) |-> i], LAMBDA i : ~IsZeroRow(a[i]))
\* the number of rows of a before its first fully-zero row
RowsBeforeZero(a) ==
    IF \E i \in 1..Len(a) : IsZeroRow(a[i])
    THEN (CHOOSE i \in 1..Len(a) : IsZeroRow(a[i]) /\ \A j \in 1..(i - 1) : ~IsZeroRow(a[j])) - 1
    ELSE Len(a)

\* C12 (as claimed): of each sampled array exactly the rows before its first
\* fully-zero row are kept, unchanged and in order; that row and every row
\* after it are discarded.
C12_truncated ==
    fn = "strip" => out.val = SubSeq(arg, 1, RowsBeforeZero(arg))

\* C12 (amended): of each sampled array exactly the rows that are not zero
\* in all three fields are kept, unchanged and in order, also those that
\* follow a fully-zero row.
C12_filtered ==
    fn = "strip" =>
       /\ Len(out.val) = Len(NonZeroIdx(arg))
       /\ \A j \in 1..Len(out.val) : out.val[j] = arg[NonZeroIdx(arg)[j]]

\* a fully-zero row between two other rows
C12_witness ==
    /\ fn = "strip" /\ Len(arg) = 3 /\ IsZeroRow(arg[2])
    /\ ~IsZeroRow(arg[1]) /\ ~IsZeroRow(arg[3]) /\ Len(out.val) = 2

\* position (from 0) of the character c in the alphabet
AlphabetIndex(c) == (CHOOSE i \in 1..Len(alphabet) : alphabet[i] = c) - 1

\* C13 (as claimed): for every line validation accepts, encode_ascii(line)
\* has len(line) + 1 elements, element i is the alphabet index of line[i],
\* and 0 occurs at the final position only.
C13_encoding ==
    (fn = "encode_ascii" /\ LineOk(arg)) =>
       /\ Len(out.val) = Len(arg) + 1
       /\ \A i \in 1..Len(arg) : out.val[i] = AlphabetIndex(arg[i])
       /\ \A i \in 1..Len(out.val) : out.val[i] = 0 <=> i = Len(arg) + 1

\* C14 (as claimed): Hand._draw never changes the offset arrays it was
\* given: at every step of its loop each array holds the values it held
\* before, so a second rendering of the same arrays emits the same paths.
C14_input_unchanged ==
    [][pc = "draw" => strokes' = strokes]_vars

\* C15 (as claimed): at every level, level <= 0 included, the array
\* add_messiness returns is a buffer of its own, never the caller's array
\* itself, so a later in-place change of the result leaves the input as it was.
C15_fresh_buffer ==
    fn = "add_messiness" => ~out.alias

\* C16: the cursor of Hand._draw starts at -(3/4) line_height and, once the
\* first k items of the loop are processed, stands at
\* -(3/4) line_height - k line_height whether those lines were empty or not;
\* the drawing then holds one path per non-empty line among them, so an empty
\* line moves the cursor and emits nothing.
C16_cursor ==
    (pc \in {"draw", "done"} \/ (pc = "raised" /\ Called("_draw"))) =>
        /\ initial_coord = QSub(QNeg(Frac(3 * line_height, 4)), Q(k * line_height))
        /\ Len(Paths) = Cardinality({i \in 1..k : lines[i] # <<>>})

\* both lines processed, the first empty and the second not
C16_witness ==
    /\ pc = "done"
    /\ k = 2
    /\ lines[1] = <<>>
    /\ lines[2] # <<>>
    /\ Len(Paths) = 1

\* the points the loop body of _draw is about to emit for item k + 1
PointsOfLine == DrawLineBody(strokes[k + 1], initial_coord, messiness, np_random).placed

\* the path the step has just added
NewPath == dwg'.elements[Len(dwg'.elements)].d

EmitsPath == pc = "draw" /\ Len(dwg'.elements) = Len(dwg.elements) + 1

\* the command the rule of the claim gives point n of p
CommandAt(p, n) ==
    <<IF n = 1 \/ p[n - 1][3] = 1 THEN "M" ELSE "L", p[n][1], p[n][2]>>

\* d is one command per point of p, in point order
OneCommandPerPoint(d, p) ==
    /\ Len(d) = Len(p)
    /\ \A n \in 1..Len(p) : d[n] = CommandAt(p, n)

\* d is a move to (0, 0) and then one command per point of p, in point order
MoveThenCommands(d, p) ==
    /\ Len(d) = Len(p) + 1
    /\ d[1] = <<"M", Q(0), Q(0)>>
    /\ \A n \in 1..Len(p) : d[n + 1] = CommandAt(p, n)

\* C17 (as claimed): the path of a non-empty line is exactly one command per
\* point, in point order: M for the first point and for a point that follows a
\* point with penLift = 1, L for every other point.
C17_one_command_per_point ==
    [][EmitsPath => OneCommandPerPoint(NewPath, PointsOfLine)]_vars

\* C17 (amended): the path of a non-empty line is a move to (0, 0) followed by
\* exactly one command per point, in point order: M for the first point and
\* for a point that follows a point with penLift = 1, L for every other point.
C17_move_then_commands ==
    [][EmitsPath => MoveThenCommands(NewPath, PointsOfLine)]_vars

\* a path of three points whose second point follows a pen lift and whose
\* third is joined by a line
C17_witness ==
    \E j \in 1..Len(Paths) :
        /\ Len(Paths[j].d) = 4
        /\ Paths[j].d[3][1] = "M"
        /\ Paths[j].d[4][1] = "L"

\* the x values of the points of a path: its commands after the leading move
PathXs(d) == [n \in 1..(Len(d) - 1) |-> d[n + 1][2]]

\* the gap left of the least x equals the gap right of the greatest x
Centered(xs) == QMinSeq(xs) = QSub(Q(view_width), QMaxSeq(xs))

\* C18 (as claimed): every rendered line is horizontally centred in the
\* canvas: its least x is as far from 0 as its greatest x is from view_width,
\* whatever the geometry of the line.
C18_centered ==
    \A j \in 1..Len(Paths) : Centered(PathXs(Paths[j].d))

\* C19 (as claimed): add_messiness cuts its input into the same non-empty
\* stroke slices as denoise and interpolate do, also when the last run of
\* points has no closing penLift or no row has penLift = 1, so every point lies
\* in exactly one stroke the per-stroke effects consider.
C19_same_strokes ==
    (fn = "add_messiness" /\ QLt(Q(0), level)) =>
        /\ StrokeSlices(arg) = StrokesOf(arg)
        /\ SumLens([i \in 1..Len(StrokeSlices(arg)) |-> Len(StrokeSlices(arg)[i])]) = Len(arg)

\* np.random as it was before the one call of SpecMess
GeneratorBefore == [np_random EXCEPT !.pos = 0]

\* the array as the per-stroke effects leave it, and the draws they made
PerStrokeResult ==
    StrokeLoop(arg, stroke_starts(arg), stroke_ends(arg), 1,
               normal_factor(level), rush_factor(level), GeneratorBefore, 0)

\* s_i: the amount drawn for stroke index i >= 1, n draws made before the step
SpacingAmount(nf, rf, g, n, i) ==
    QAdd(QMul(nf, uniform(Q(-2), Q(4), g, n + 2 * (i - 1))),
         QMul(rf, uniform(Q(-4), Q(8), g, n + 2 * (i - 1) + 1)))

\* s_1 + ... + s_j
RECURSIVE SumAmounts(_, _, _, _, _)
SumAmounts(nf, rf, g, n, j) ==
    IF j = 0 THEN Q(0)
    ELSE QAdd(SumAmounts(nf, rf, g, n, j - 1), SpacingAmount(nf, rf, g, n, j))

\* index (from 0) of the stroke row p lies in: the pen lifts before it
StrokeIndex(coords, p) == Cardinality({q \in 1..(p - 1) : coords[q][3] = 1})

\* step 7 leaves the array alone
DriftOff(res, rf) ==
    ~(/\ QLt(Q(0), rf)
      /\ Len(res) > DriftMinLen
      /\ QLt(Q(0), QSub(res[Len(res)][1], res[1][1])))

\* res is before with every point of stroke j moved right by s_1 + ... + s_j,
\* one amount drawn per stroke index >= 1, y and penLift as before
SpacedAsClaimed(res, before, a, nf, rf, g) ==
    /\ Len(res.val) = Len(a)
    /\ \A p \in 1..Len(a) :
         /\ res.val[p][1] = QAdd(before.coords[p][1],
                                 SumAmounts(nf, rf, g, before.draws, StrokeIndex(a, p)))
         /\ res.val[p][3] = before.coords[p][3]
         /\ DriftOff(res.val, rf) => res.val[p][2] = before.coords[p][2]
    /\ res.draws = before.draws
                   + (IF Len(StrokesOf(a)) > 1 THEN 2 * (Len(StrokesOf(a)) - 1) ELSE 0)
                   + (IF DriftOff(res.val, rf) THEN 0 ELSE 1)

\* C20 (as claimed): the spacing step of add_messiness accumulates: stroke 0
\* stays, every point of stroke j is moved right by s_1 + ... + s_j, one
\* amount s_i is drawn for every stroke index i >= 1 in stroke order whatever
\* the strokes' lengths, and no y and no penLift value changes.
C20_spacing_accumulates ==
    (fn = "add_messiness" /\ QLt(Q(0), level)) =>
        SpacedAsClaimed(out, PerStrokeResult, arg, normal_factor(level), rush_factor(level),
                        GeneratorBefore)

\* the array as the spacing step leaves it, and the draws made up to there
BeforeDrift ==
    Spacing(PerStrokeResult, stroke_starts(arg), normal_factor(level), rush_factor(level),
            GeneratorBefore)

\* the greatest and the least x of a non-empty array
XMax(coords) ==
    coords[CHOOSE i \in 1..Len(coords) : \A j \in 1..Len(coords) : QLe(coords[j][1], coords[i][1])][1]
XMin(coords) ==
    coords[CHOOSE i \in 1..Len(coords) : \A j \in 1..Len(coords) : QLe(coords[i][1], coords[j][1])][1]

\* greatest x minus least x of a non-empty array
XRange(coords) == QSub(XMax(coords), XMin(coords))

\* the x-range of a non-empty array is zero: every x is the first x
ZeroXRange(coords) == \A i \in 1..Len(coords) : coords[i][1] = coords[1][1]

\* res is what step 7 was given: no amplitude drawn, no value changed
DriftSkipped(res, before) == res.val = before.coords /\ res.draws = before.draws

\* C21: the drift step of add_messiness never divides by zero: when the
\* x-range of the sequence it is given is zero the step is skipped, no
\* progress is computed, nothing is drawn and every y is left as it was.
C21_zero_range_skipped ==
    (fn = "add_messiness" /\ QLt(Q(0), level) /\ arg # <<>>
        /\ ZeroXRange(out.val)) => DriftSkipped(out, BeforeDrift)

\* rush mode, more than DriftMinLen rows, all at one x
C21_witness ==
    /\ fn = "add_messiness"
    /\ QLt(Q(0), rush_factor(level))
    /\ Len(arg) > DriftMinLen
    /\ ZeroXRange(out.val)

\* the condition under which step 7 is to apply: rush mode, more than
\* DriftMinLen points, and an x-range that is not zero
DriftDue(coords, rf) ==
    /\ QLt(Q(0), rf)
    /\ Len(coords) > DriftMinLen
    /\ XRange(coords) # Q(0)

\* (x - xMin) / xRange
ProgressOf(coords, p) == QDiv(QSub(coords[p][1], XMin(coords)), XRange(coords))

\* the amplitude A = rush_factor U(-3, 3), drawn after n draws
Amplitude(rf, g, n) == QMul(rf, uniform(Q(-3), Q(3), g, n))

\* res is before with one amplitude drawn and A sin(progress pi) added to
\* every y (compared wherever that sine is rational)
DriftApplied(res, before, rf, g) ==
    /\ res.draws = before.draws + 1
    /\ \A p \in 1..Len(before.coords) :
         /\ res.val[p][1] = before.coords[p][1]
         /\ SinPiEvaluates(ProgressOf(before.coords, p)) =>
              res.val[p][2] = QAdd(before.coords[p][2],
                                   QMul(Amplitude(rf, g, before.draws),
                                        SinPi(ProgressOf(before.coords, p))))

DriftAsClaimed(res, before, rf, g) ==
    IF DriftDue(before.coords, rf) THEN DriftApplied(res, before, rf, g)
    ELSE DriftSkipped(res, before)

\* C22 (as claimed): the drift step of add_messiness applies exactly when
\* rush_factor > 0, there are more than 10 points and the x-range (greatest x
\* minus least x) is not zero; then one amplitude A is drawn and
\* A sin(progress pi) is added to every y; otherwise nothing is drawn and no y
\* changes.
C22_drift_when_due ==
    (fn = "add_messiness" /\ QLt(Q(0), level) /\ arg # <<>>) =>
        DriftAsClaimed(out, BeforeDrift, rush_factor(level), GeneratorBefore)

\* the progress value step 7 computes for point p of the array it is given
ProgressAt(coords, p) ==
    Progress(coords, QSub(coords[Len(coords)][1], coords[1][1]), p)

InUnit(q) == QLe(Q(0), q) /\ QLe(q, Q(1))

\* C23 (as claimed): whenever the drift step of add_messiness is applied, the
\* progress value it computes for every point lies in [0, 1].
C23_progress_in_unit ==
    (fn = "add_messiness" /\ QLt(Q(0), level) /\ arg # <<>>
        /\ ~DriftOff(out.val, rush_factor(level))) =>
        \A p \in 1..Len(arg) : InUnit(ProgressAt(BeforeDrift.coords, p))

\* min(level, 1) and max(level - 1, 0)
MinLevelOne(l) == QMin2(l, Q(1))
MaxLevelLessOne(l) == QMax2(QSub(l, Q(1)), Q(0))

\* res is what effects 1-7 give with factors nf and rf
MessedWith(res, a, nf, rf, g) ==
    /\ res.tag = "ok"
    /\ res.val = MessAll(a, nf, rf, g).coords

\* C24: for every level > 0, levels above 1.5 included, add_messiness works
\* with normalFactor = min(level, 1) and rushFactor = max(level - 1, 0):
\* normalFactor is at most 1, rushFactor is never negative and is positive
\* exactly when level > 1; the call returns and nothing is clamped at 1.5.
C24_factors ==
    (fn = "add_messiness" /\ QLt(Q(0), level)) =>
        /\ normal_factor(level) = MinLevelOne(level)
        /\ rush_factor(level) = MaxLevelLessOne(level)
        /\ QLe(normal_factor(level), Q(1))
        /\ QLe(Q(0), rush_factor(level))
        /\ (QLt(Q(0), rush_factor(level)) <=> QLt(Q(1), level))
        /\ MessedWith(out, arg, MinLevelOne(level), MaxLevelLessOne(level), GeneratorBefore)

\* a call at a level above 1.5 that returned: rushFactor is above 1/2
C24_witness ==
    /\ fn = "add_messiness"
    /\ QLt(Frac(3, 2), level)
    /\ out.tag = "ok"
    /\ QLt(Frac(1, 2), rush_factor(level))
    /\ arg # <<>>

\* the regression system of align is singular: fewer than two points, or
\* every point at the same x
SingularFit(coords) ==
    Len(coords) < 2 \/ \A i \in 1..Len(coords) : coords[i][1] = coords[1][1]

\* C25 (as claimed): on a singular regression system (fewer than two points,
\* or all points at one x) align fails with the numeric error and returns no
\* array; on every other input it returns an array.
C25_singular_raises ==
    fn = "align" =>
        IF SingularFit(arg) THEN out = Raise("LinAlgError") ELSE out.tag = "ok"

\* every stroke of the array is shorter than the filter's window (so is the
\* empty array, which has no stroke)
ShortStrokes(coords) ==
    \A n0 \in 1..Len(StrokesOf(coords)) : Len(StrokesOf(coords)[n0]) < SavgolWindow

\* the number of rows the strokes of coords are to yield
RowsDue(coords, f) ==
    SumLens([n0 \in 1..Len(StrokesOf(coords)) |->
               IF fn = "interpolate" THEN Resampled(Len(StrokesOf(coords)[n0]), f)
               ELSE Len(StrokesOf(coords)[n0])])

\* C26 (as claimed): denoise and interpolate return, without raising, on every
\* input whose strokes are shorter than the 7-point window and on every input
\* with only zero-length strokes, the empty sequence included; the result has
\* the rows of the non-empty strokes and none for a zero-length one.
C26_short_input_returns ==
    (fn \in {"denoise", "interpolate"} /\ ShortStrokes(arg)) =>
        /\ IsOk(out)
        /\ Len(out.val) = RowsDue(arg, level[1])

\* np.random as it was when Hand.write was called
GeneratorAtWrite == [np_random EXCEPT !.pos = 0]

\* the points item k + 1 yields when it is the first line to be processed
PointsIfFirst == DrawLineBody(strokes[k + 1], initial_coord, messiness, GeneratorAtWrite).placed

\* C27 (as claimed): per-line work is order-independent at every messiness
\* level: the path of a line depends only on its own offsets, its index
\* (through the cursor) and its style, so the path a line gets in input order
\* is the path it gets when it is processed before every other line.
C27_order_independent ==
    [][EmitsPath => NewPath = PathCommands(PointsIfFirst)]_vars

\* C28 (as claimed): the alphabet tables are never mutated after start-up:
\* after any encode_ascii and Hand.write calls, on any text, alpha_to_num
\* holds exactly the entries it held at start-up.
C28_tables_unchanged ==
    alpha_to_num = AlphaToNum

\* row 0 of o is the sentinel (0, 0, 1) and row i >= 1 is
\* (c[i] - c[i-1], penLift of c[i]), for as many rows as o has
SentinelThenDiffs(o, c) ==
    /\ o[1] = <<Q(0), Q(0), 1>>
    /\ \A i \in 2..Len(o) :
         o[i] = <<QSub(c[i][1], c[i - 1][1]), QSub(c[i][2], c[i - 1][2]), c[i][3]>>

\* C29 (as claimed): coords_to_offsets returns exactly as many rows as its
\* input has, for every input, the empty sequence included: the sentinel
\* (0, 0, 1) for the first point, then (c[i] - c[i-1], penLift of c[i]).
C29_same_row_count ==
    fn = "coords_to_offsets" =>
        /\ Len(out.val) = Len(arg)
        /\ Len(arg) > 0 => SentinelThenDiffs(out.val, arg)

\* C29 (amended): coords_to_offsets returns as many rows as its input has for
\* every non-empty input, and the one sentinel row for the empty sequence:
\* row 0 is the sentinel (0, 0, 1) and row i >= 1 is
\* (c[i] - c[i-1], penLift of c[i]).
C29_rows_at_least_sentinel ==
    fn = "coords_to_offsets" =>
        /\ Len(out.val) = (IF Len(arg) = 0 THEN 1 ELSE Len(arg))
        /\ SentinelThenDiffs(out.val, arg)

\* three points, the second away from the first and carrying no pen lift
C29_witness ==
    /\ fn = "coords_to_offsets"
    /\ Len(arg) = 3
    /\ arg[2][1] # arg[1][1]
    /\ arg[1][3] = 1 /\ arg[2][3] = 0
    /\ Len(out.val) = 3

\* the number of rows with penLift = 1
PenLifts(coords) == Len(stroke_ends(coords))

\* penLift is 1 on the last point of the stroke and on no other
ClosedStroke(st) == \A i \in 1..Len(st) : st[i][3] = (IF i = Len(st) THEN 1 ELSE 0)

\* the strokes of res are closed and are, in order, the resampled strokes of a
ResampledStrokes(res, a, f) ==
    /\ Len(StrokesOf(res)) = Len(StrokesOf(a))
    /\ \A n0 \in 1..Len(StrokesOf(res)) :
         /\ ClosedStroke(StrokesOf(res)[n0])
         /\ StrokesOf(res)[n0] = InterpolateStroke(StrokesOf(a)[n0], f)

====
